---------------------------- MODULE Spec2Model ----------------------------
(***************************************************************************)
(* Car crash analytics (src/crash_analysis.py): the CSV loader, the ten    *)
(* analytics queries over the loaded tables, and the menu loop that        *)
(* dispatches to them.                                                     *)
(*                                                                         *)
(* A table (Spark DataFrame) is a sequence of rows; a row is a record of   *)
(* its columns.  A cell is a string, or NULL for an empty CSV field.       *)
(* CRASH_ID is a positive integer and is never NULL in the inputs drawn    *)
(* here.  The free-text columns CHARGE and DAMAGED_PROPERTY are sequences  *)
(* of characters, so that contains() is a real substring test.            *)
(*                                                                         *)
(* What the engine leaves unspecified is a nondeterministic choice: the    *)
(* row dropDuplicates keeps for a key, and the order orderBy gives to rows *)
(* with equal sort keys.  A DataFrame is a lazy plan, so every action on   *)
(* it (collect, count) and every branch of a plan that uses it twice       *)
(* evaluates it again and chooses again.  Each query is therefore an       *)
(* operator from the loaded mapping to the SET of outputs it may print.    *)
(***************************************************************************)
EXTENDS Integers, Sequences, FiniteSets, TLC

VARIABLES
    dir,        \* ./Data/: file name [stem, ext] -> the table the file holds
    datasets,   \* self.datasets: logical name -> table
    pc,         \* "load", "prompt", "pause", "done", "crashed"
    choice,     \* menu(): the local variable choice
    ran,        \* the analytics methods called in the current loop iteration
    report      \* what the current loop iteration printed, or the exception raised

vars == <<dir, datasets, pc, choice, ran, report>>

----------------------------------------------------------------------------
(* Cells and text *)

NULL == "<null>"

HIT_AND_RUN == <<"H","I","T"," ","A","N","D"," ","R","U","N">>
SPEED == <<"S","P","E","E","D">>
NO_DAMAGE == <<"N","O"," ","D","A","M","A","G","E">>

\* Column.contains(literal): the literal occurs as a contiguous substring.
Contains(text, sub) ==
    \E i \in 0..(Len(text) - Len(sub)) : SubSeq(text, i + 1, i + Len(sub)) = sub

\* A filter keeps the rows whose condition is TRUE.  A comparison with NULL is
\* NULL in Spark, never TRUE, so a conjunct or disjunct on a NULL cell is
\* never satisfied.
ColEq(v, lit) == v # NULL /\ v = lit
ColNe(v, lit) == v # NULL /\ v # lit
ColIsin(v, lits) == v # NULL /\ v \in lits

----------------------------------------------------------------------------
(* Relational operators of the engine *)

RECURSIVE Concat(_)
Concat(ss) == IF ss = <<>> THEN <<>> ELSE Head(ss) \o Concat(Tail(ss))

\* a.join(b, on="CRASH_ID", how="inner"): one merged row per matching pair.
Join(a, b) ==
    Concat([i \in DOMAIN a |->
        LET m == SelectSeq(b, LAMBDA r : r.CRASH_ID = a[i].CRASH_ID)
        IN  [j \in DOMAIN m |-> a[i] @@ m[j]]])

CrashIds(t) == {t[i].CRASH_ID : i \in DOMAIN t}

RECURSIVE Picks(_, _)
Picks(t, ids) ==
    IF ids = {} THEN {{}}
    ELSE LET c == CHOOSE x \in ids : TRUE
         IN  {P \cup {i} : P \in Picks(t, ids \ {c}),
                           i \in {k \in DOMAIN t : t[k].CRASH_ID = c}}

RECURSIVE Rows(_, _)
Rows(t, idx) ==
    IF idx = {} THEN <<>>
    ELSE LET i == CHOOSE x \in idx : \A y \in idx : x <= y
         IN  <<t[i]>> \o Rows(t, idx \ {i})

\* df.dropDuplicates(['CRASH_ID']): one row per CRASH_ID, which one is not
\* specified.  The set of tables an evaluation may produce.
DropDuplicates(t) == {Rows(t, P) : P \in Picks(t, CrashIds(t))}

\* df.groupBy(key).count(), df.groupBy(key).agg(count("CRASH_ID")): one row per
\* key value (NULL is a key like any other), with the number of rows.
GroupCount(t, c) ==
    {[key |-> k, count |-> Cardinality({i \in DOMAIN t : t[i][c] = k})] :
        k \in {t[i][c] : i \in DOMAIN t}}

\* df.groupBy(c1, c2).agg(count("CRASH_ID")): the key is the pair.
GroupCount2(t, c1, c2) ==
    {[key |-> k, count |-> Cardinality({i \in DOMAIN t : <<t[i][c1], t[i][c2]>> = k})] :
        k \in {<<t[i][c1], t[i][c2]>> : i \in DOMAIN t}}

Min(a, b) == IF a < b THEN a ELSE b

\* df.orderBy(desc(count)).limit(n) as a set of rows: n rows (all, when there
\* are fewer), none of them with a smaller count than a row left out.  Rows
\* with equal counts at the cut are taken in any combination.
LimitSets(g, n) ==
    LET must == {r \in g : Cardinality({s \in g : s # r /\ s.count >= r.count}) < n}
        can  == {r \in g : Cardinality({s \in g : s.count > r.count}) < n}
    IN  {must \cup T : T \in {U \in SUBSET (can \ must) :
                                Cardinality(must) + Cardinality(U) = Min(n, Cardinality(g))}}

RECURSIVE Orderings(_)
Orderings(S) ==
    IF S = {} THEN {<<>>}
    ELSE UNION {{<<r>> \o o : o \in Orderings(S \ {r})} :
                    r \in {x \in S : \A y \in S : x.count >= y.count}}

\* The same as the list collect() returns: descending count, ties in any order.
LimitSeqs(g, n) == UNION {Orderings(S) : S \in LimitSets(g, n)}

Column(seq) == [i \in DOMAIN seq |-> seq[i].key]

----------------------------------------------------------------------------
(* Outputs *)

\* An output: what the method printed (value) and, where a later property
\* reads them, the method's local lists (locals).
Ok(v) == [status |-> "ok", value |-> v, locals |-> <<>>]
\* self.datasets.get(name) is None for a name that was not loaded, and the first
\* method called on it raises AttributeError ('NoneType' object has no attribute).
AttributeError == [status |-> "AttributeError", value |-> "NoneType", locals |-> <<>>]
\* collect()[0] on an empty result.
IndexError == [status |-> "IndexError", value |-> "list index out of range", locals |-> <<>>]
Nothing == [status |-> "none", value |-> "", locals |-> <<>>]

\* self.datasets.get(name) is not None, for every name.
Loaded(ds, names) == \A n \in names : n \in DOMAIN ds

----------------------------------------------------------------------------
(* The ten queries *)

\* analytics_1 with the docstring's "males killed > 2" as the threshold.
analytics_1_gt(ds) ==
    IF ~Loaded(ds, {"Primary_Person_use"}) THEN {AttributeError}
    ELSE LET df == ds["Primary_Person_use"]
             filtered_df == SelectSeq(df, LAMBDA r :
                 ColEq(r.PRSN_GNDR_ID, "MALE") /\ ColEq(r.PRSN_INJRY_SEV_ID, "KILLED"))
             grouped_df == GroupCount(filtered_df, "CRASH_ID")
             result_df == {g \in grouped_df : g.count > 2}
         IN  {Ok(Cardinality(result_df))}

analytics_1(ds) ==
    IF ~Loaded(ds, {"Primary_Person_use"}) THEN {AttributeError}
    ELSE LET df == ds["Primary_Person_use"]
             filtered_df == SelectSeq(df, LAMBDA r :
                 ColEq(r.PRSN_GNDR_ID, "MALE") /\ ColEq(r.PRSN_INJRY_SEV_ID, "KILLED"))
             grouped_df == GroupCount(filtered_df, "CRASH_ID")
             result_df == {g \in grouped_df : g.count >= 2}
         IN  {Ok(Cardinality(result_df))}

\* analytics_2 without the dropDuplicates: the two-wheeler rows are counted.
analytics_2_rows(ds) ==
    IF ~Loaded(ds, {"Units_use"}) THEN {AttributeError}
    ELSE LET df == ds["Units_use"]
             filtered_df == SelectSeq(df, LAMBDA r :
                 ColEq(r.VEH_BODY_STYL_ID, "MOTORCYCLE")
                 \/ ColEq(r.VEH_BODY_STYL_ID, "POLICE MOTORCYCLE"))
         IN  {Ok(Len(filtered_df))}

analytics_2(ds) ==
    IF ~Loaded(ds, {"Units_use"}) THEN {AttributeError}
    ELSE LET df == ds["Units_use"]
             filtered_df == SelectSeq(df, LAMBDA r :
                 ColEq(r.VEH_BODY_STYL_ID, "MOTORCYCLE")
                 \/ ColEq(r.VEH_BODY_STYL_ID, "POLICE MOTORCYCLE"))
         IN  {Ok(Len(unique_df)) : unique_df \in DropDuplicates(filtered_df)}

analytics_3(ds) ==
    IF ~Loaded(ds, {"Primary_Person_use", "Units_use"}) THEN {AttributeError}
    ELSE LET df1 == ds["Primary_Person_use"]
             df2 == ds["Units_use"]
             df_joined == SelectSeq(Join(df1, df2), LAMBDA r :
                 /\ ColEq(r.PRSN_TYPE_ID, "DRIVER")
                 /\ ColEq(r.PRSN_AIRBAG_ID, "NOT DEPLOYED")
                 /\ ColEq(r.PRSN_INJRY_SEV_ID, "KILLED"))
             grouped_df == GroupCount(df_joined, "VEH_MAKE_ID")
         IN  {Ok(Column(top_5_df)) : top_5_df \in LimitSeqs(grouped_df, 5)}

analytics_4(ds) ==
    IF ~Loaded(ds, {"Primary_Person_use", "Charges_use"}) THEN {AttributeError}
    ELSE LET df1 == ds["Primary_Person_use"]
             df2 == ds["Charges_use"]
             filter_df == SelectSeq(Join(df1, df2), LAMBDA r :
                 /\ ColNe(r.DRVR_LIC_CLS_ID, "UNLICENSED")
                 /\ ColNe(r.DRVR_LIC_CLS_ID, "UNKNOWN")
                 /\ ColEq(r.PRSN_TYPE_ID, "DRIVER"))
             hit_and_run_df == SelectSeq(filter_df, LAMBDA r : Contains(r.CHARGE, HIT_AND_RUN))
         IN  {Ok(Len(u)) : u \in DropDuplicates(hit_and_run_df)}

\* analytics_5 with the gender compared without regard to case.
analytics_5_nocase(ds) ==
    IF ~Loaded(ds, {"Primary_Person_use"}) THEN {AttributeError}
    ELSE LET df == ds["Primary_Person_use"]
             df_filtered == SelectSeq(df, LAMBDA r :
                 ColNe(r.PRSN_GNDR_ID, "FEMALE") /\ ColNe(r.PRSN_GNDR_ID, "Female"))
             accidents_count_df == GroupCount(df_filtered, "DRVR_LIC_STATE_ID")
             max_accident_state == LimitSeqs(accidents_count_df, 1)
         IN  IF accidents_count_df = {} THEN {IndexError}
             ELSE {Ok([state |-> a[1].key, count |-> b[1].count]) :
                      a \in max_accident_state, b \in max_accident_state}

\* max_accident_state is collected twice (lines 89 and 90): the state is read
\* from one evaluation and the count from another.
analytics_5(ds) ==
    IF ~Loaded(ds, {"Primary_Person_use"}) THEN {AttributeError}
    ELSE LET df == ds["Primary_Person_use"]
             df_filtered == SelectSeq(df, LAMBDA r : ColNe(r.PRSN_GNDR_ID, "FEMALE"))
             accidents_count_df == GroupCount(df_filtered, "DRVR_LIC_STATE_ID")
             max_accident_state == LimitSeqs(accidents_count_df, 1)
         IN  IF accidents_count_df = {} THEN {IndexError}
             ELSE {Ok([state |-> a[1].key, count |-> b[1].count]) :
                      a \in max_accident_state, b \in max_accident_state}

\* sorted_df.limit(n): sorted_df is a plan, not a cached table; each use of it
\* evaluates the join, the dropDuplicates and the sort again.
sorted_df_limit(df_joined, n) ==
    UNION {LimitSets(GroupCount(unique_df, "VEH_MAKE_ID"), n) :
              unique_df \in DropDuplicates(df_joined)}

\* subtract is EXCEPT DISTINCT on whole rows (VEH_MAKE_ID, injury_count); the
\* rows collect() returns come in no specified order: a set.
analytics_6(ds) ==
    IF ~Loaded(ds, {"Primary_Person_use", "Units_use"}) THEN {AttributeError}
    ELSE LET df1 == ds["Primary_Person_use"]
             df2 == ds["Units_use"]
             df_joined == SelectSeq(Join(df1, df2), LAMBDA r :
                 /\ ColNe(r.PRSN_INJRY_SEV_ID, "NOT INJURED")
                 /\ ColNe(r.PRSN_INJRY_SEV_ID, "UNKNOWN")
                 /\ ColNe(r.PRSN_INJRY_SEV_ID, "NA"))
         IN  {Ok(top5 \ top2) : top5 \in sorted_df_limit(df_joined, 5),
                                top2 \in sorted_df_limit(df_joined, 2)}

\* row_number() in the place of rank(): one row of each partition gets 1.
RowNumber(g, r) ==
    IF r = CHOOSE x \in g : /\ x.key[1] = r.key[1]
                            /\ \A y \in g : y.key[1] = x.key[1] => y.count <= x.count
    THEN 1 ELSE 2

\* rank().over(partitionBy(VEH_BODY_STYL_ID).orderBy(desc(ethnicity_count))):
\* one more than the number of rows of the partition with a larger count.
Rank(g, r) == 1 + Cardinality({s \in g : s.key[1] = r.key[1] /\ s.count > r.count})

analytics_7(ds) ==
    IF ~Loaded(ds, {"Primary_Person_use", "Units_use"}) THEN {AttributeError}
    ELSE LET df1 == ds["Primary_Person_use"]
             df2 == ds["Units_use"]
             df_joined == SelectSeq(Join(df1, df2), LAMBDA r :
                 /\ ColNe(r.VEH_BODY_STYL_ID, "UNKNOWN")
                 /\ ColNe(r.VEH_BODY_STYL_ID, "NA")
                 /\ ColNe(r.VEH_BODY_STYL_ID, "NOT REPORTED"))
             ethnicity_count_df == GroupCount2(df_joined, "VEH_BODY_STYL_ID", "PRSN_ETHNICITY_ID")
             top_ethnic_group_df == {r \in ethnicity_count_df : Rank(ethnicity_count_df, r) = 1}
         IN  {Ok(top_ethnic_group_df)}

analytics_8(ds) ==
    IF ~Loaded(ds, {"Primary_Person_use"}) THEN {AttributeError}
    ELSE LET df == ds["Primary_Person_use"]
             df_filtered == SelectSeq(df, LAMBDA r :
                 ColEq(r.PRSN_ALC_RSLT_ID, "Positive") /\ ColNe(r.DRVR_ZIP, "NULL"))
         IN  UNION {{Ok(top_5_zip_codes) :
                        top_5_zip_codes \in LimitSeqs(GroupCount(unique_df, "DRVR_ZIP"), 5)} :
                    unique_df \in DropDuplicates(df_filtered)}

allowed_rating == {"DAMAGED 5", "DAMAGED 6", "DAMAGED 7 HIGHEST"}
insured == {"PROOF OF LIABILITY INSURANCE", "LIABILITY INSURANCE POLICY",
            "SURETY BOND", "CERTIFICATE OF SELF-INSURANCE"}

\* The filter of line 141 without its DAMAGED_PROPERTY condition.
RatingAndInsuranceOnly(r) ==
    /\ ColIsin(r.VEH_DMAG_SCL_1_ID, allowed_rating)
    /\ ColIsin(r.FIN_RESP_TYPE_ID, insured)

\* The condition of the filter of line 141 on one joined row.
NoDamageInsured(r) ==
    /\ Contains(r.DAMAGED_PROPERTY, NO_DAMAGE)
    /\ ColIsin(r.VEH_DMAG_SCL_1_ID, allowed_rating)
    /\ ColIsin(r.FIN_RESP_TYPE_ID, insured)

analytics_9(ds) ==
    IF ~Loaded(ds, {"Primary_Units_use", "Damages_use"}) THEN {AttributeError}
    ELSE LET df1 == ds["Primary_Units_use"]
             df2 == ds["Damages_use"]
             df_joined == SelectSeq(Join(df1, df2), NoDamageInsured)
         IN  {Ok(Len(unique_df)) : unique_df \in DropDuplicates(df_joined)}

Keys(g) == {r.key : r \in g}

TopStates == 25
TopColors == 10

\* Lines 154-160: the license states of the person table, one row per crash,
\* NA/Unknown/Other dropped, the 25 with the most crashes.
top_25_states(person) ==
    UNION {{Keys(S) : S \in LimitSets(
                {r \in GroupCount(u, "DRVR_LIC_STATE_ID") :
                    ColNe(r.key, "NA") /\ ColNe(r.key, "Unknown") /\ ColNe(r.key, "Other")},
                TopStates)} :
           u \in DropDuplicates(person)}

\* Lines 164-169: the colors of the units table, one row per crash, the 10 with
\* the most crashes.
Top_10_vehicle_colors(units) ==
    UNION {{Keys(S) : S \in LimitSets(GroupCount(u, "VEH_COLOR_ID"), TopColors)} :
           u \in DropDuplicates(units)}

\* Lines 150-151.
driver_offence(person, charges) ==
    SelectSeq(Join(person, charges), LAMBDA r :
        ColEq(r.PRSN_TYPE_ID, "DRIVER") /\ Contains(r.CHARGE, SPEED))

\* Lines 173-177, for one value of each of the two lists.
Top_5_vehicles(units, offence, states, colors) ==
    LET df_driver_offence == SelectSeq(offence, LAMBDA r : ColIsin(r.DRVR_LIC_STATE_ID, states))
        df1 == SelectSeq(units, LAMBDA r : ColIsin(r.VEH_COLOR_ID, colors))
        final_df == Join(df1, df_driver_offence)
    IN  UNION {{Column(t) : t \in LimitSeqs(GroupCount(f, "VEH_MAKE_ID"), 5)} :
               f \in DropDuplicates(final_df)}

\* analytics_10 with the top states taken from the speeding drivers' rows
\* instead of the whole person table.
analytics_10_after_filter(ds) ==
    IF ~Loaded(ds, {"df_Units_use", "df_Charges_use", "df_Primary_Person_use"})
    THEN {AttributeError}
    ELSE LET df1 == ds["df_Units_use"]
             df2 == ds["df_Charges_use"]
             df3 == ds["df_Primary_Person_use"]
             df_driver_offence == driver_offence(df3, df2)
         IN  UNION {{[status |-> "ok", value |-> v,
                      locals |-> [top_25_states_list |-> st,
                                  Top_10_vehicle_colors_list |-> co]] :
                        v \in Top_5_vehicles(df1, df_driver_offence, st, co)} :
                    st \in top_25_states(df_driver_offence), co \in Top_10_vehicle_colors(df1)}

analytics_10(ds) ==
    IF ~Loaded(ds, {"df_Units_use", "df_Charges_use", "df_Primary_Person_use"})
    THEN {AttributeError}
    ELSE LET df1 == ds["df_Units_use"]
             df2 == ds["df_Charges_use"]
             df3 == ds["df_Primary_Person_use"]
             df_driver_offence == driver_offence(df3, df2)
         IN  UNION {{[status |-> "ok", value |-> v,
                      locals |-> [top_25_states_list |-> st,
                                  Top_10_vehicle_colors_list |-> co]] :
                        v \in Top_5_vehicles(df1, df_driver_offence, st, co)} :
                    st \in top_25_states(df3), co \in Top_10_vehicle_colors(df1)}

----------------------------------------------------------------------------
(* The loader and the menu loop *)

Csv(stem) == [stem |-> stem, ext |-> ".csv"]

\* load_datasets: every file of the folder whose name ends with ".csv", keyed
\* by its name without the extension.
LoadedMapping(d) ==
    [n \in {f.stem : f \in {x \in DOMAIN d : x.ext = ".csv"}} |-> d[Csv(n)]]

load_datasets ==
    /\ pc = "load"
    /\ datasets' = LoadedMapping(dir)
    /\ pc' = "prompt"
    /\ UNCHANGED <<dir, choice, ran, report>>

\* What input() may return at "Enter your choice: ".
Choices == {"1", "2", "3", "4", "5", "6", "7", "8", "9", "10", "11",
            "0", "12", "", " 1", "01", "one"}

\* Dispatch with the input parsed as a number, int(choice), instead of compared
\* as a string.
DispatchParsed(c) ==
    CASE c \in {"1", " 1", "01"} -> 1 [] c = "2" -> 2 [] c = "3" -> 3 [] c = "4" -> 4
      [] c = "5" -> 5 [] c = "6" -> 6 [] c = "7" -> 7 [] c = "8" -> 8
      [] c = "9" -> 9 [] c = "10" -> 10 [] c = "11" -> 11 [] OTHER -> 0

\* The if/elif chain of lines 203-227: the number of the branch taken, 0 for
\* the else branch.
Dispatch(c) ==
    CASE c = "1" -> 1 [] c = "2" -> 2 [] c = "3" -> 3 [] c = "4" -> 4
      [] c = "5" -> 5 [] c = "6" -> 6 [] c = "7" -> 7 [] c = "8" -> 8
      [] c = "9" -> 9 [] c = "10" -> 10 [] c = "11" -> 11 [] OTHER -> 0

\* The method branch q calls.
RunAnalytics(q, ds) ==
    CASE q = 1 -> analytics_1(ds) [] q = 2 -> analytics_2(ds)
      [] q = 3 -> analytics_3(ds) [] q = 4 -> analytics_4(ds)
      [] q = 5 -> analytics_5(ds) [] q = 6 -> analytics_6(ds)
      [] q = 7 -> analytics_7(ds) [] q = 8 -> analytics_8(ds)
      [] q = 9 -> analytics_9(ds) [] q = 10 -> analytics_10(ds)

\* Branches 1 to 10.  An exception is not caught anywhere: it leaves menu() and
\* ends the process.
menu_analytics ==
    /\ pc = "prompt"
    /\ \E c \in Choices :
        /\ Dispatch(c) \in 1..10
        /\ choice' = c
        /\ ran' = <<Dispatch(c)>>
        /\ \E out \in RunAnalytics(Dispatch(c), datasets) :
            /\ report' = out
            /\ pc' = IF out.status = "ok" THEN "pause" ELSE "crashed"
    /\ UNCHANGED <<dir, datasets>>

\* Branch 11: print("Exiting"); break.
menu_exit ==
    /\ pc = "prompt"
    /\ \E c \in Choices :
        /\ Dispatch(c) = 11
        /\ choice' = c
    /\ ran' = <<>>
    /\ report' = [status |-> "ok", value |-> "Exiting", locals |-> <<>>]
    /\ pc' = "done"
    /\ UNCHANGED <<dir, datasets>>

\* The else branch.
menu_invalid ==
    /\ pc = "prompt"
    /\ \E c \in Choices :
        /\ Dispatch(c) = 0
        /\ choice' = c
    /\ ran' = <<>>
    /\ report' = [status |-> "ok", value |-> "Invalid choice. Please try again.",
                  locals |-> <<>>]
    /\ pc' = "pause"
    /\ UNCHANGED <<dir, datasets>>

\* input("Press Enter to continue..."), then the top of the loop: the screen is
\* cleared and the menu printed.
press_enter ==
    /\ pc = "pause"
    /\ pc' = "prompt"
    /\ ran' = <<>>
    /\ report' = Nothing
    /\ UNCHANGED <<dir, datasets, choice>>

Next == load_datasets \/ menu_analytics \/ menu_exit \/ menu_invalid \/ press_enter

\* choice before the first input().
Unbound == "<unbound>"

\* After CarCrashAnalytics(data_folder): datasets is {} and nothing has run; the
\* folder holds one of the directories of D.
InitWith(D) ==
    /\ dir \in D
    /\ datasets = <<>>
    /\ pc = "load"
    /\ choice = Unbound
    /\ ran = <<>>
    /\ report = Nothing

----------------------------------------------------------------------------
(* Rows *)

Person(c) ==
    [CRASH_ID |-> c, PRSN_GNDR_ID |-> "MALE", PRSN_INJRY_SEV_ID |-> "NOT INJURED",
     PRSN_TYPE_ID |-> "DRIVER", PRSN_AIRBAG_ID |-> "DEPLOYED, FRONT",
     DRVR_LIC_CLS_ID |-> "CLASS C", DRVR_LIC_STATE_ID |-> "TX",
     PRSN_ETHNICITY_ID |-> "WHITE", PRSN_ALC_RSLT_ID |-> "Negative",
     DRVR_ZIP |-> "78501"]

Unit(c) ==
    [CRASH_ID |-> c, VEH_BODY_STYL_ID |-> "PASSENGER CAR, 4-DOOR", VEH_MAKE_ID |-> "FORD",
     VEH_COLOR_ID |-> "WHI", VEH_DMAG_SCL_1_ID |-> "DAMAGED 2",
     FIN_RESP_TYPE_ID |-> "PROOF OF LIABILITY INSURANCE"]

Charge(c, text) == [CRASH_ID |-> c, CHARGE |-> text]

Damage(c, text) == [CRASH_ID |-> c, DAMAGED_PROPERTY |-> text]

RECURSIVE Enum(_)
Enum(S) == IF S = {} THEN <<>> ELSE LET x == CHOOSE y \in S : TRUE IN <<x>> \o Enum(S \ {x})

\* The tables of at most n rows of S, one for each multiset of rows: no operator
\* above reads the position of a row, so one order of the rows stands for all.
Tables(S, n) ==
    LET e == Enum(S)
    IN  UNION {{[i \in 1..k |-> e[f[i]]] :
                   f \in {g \in [1..k -> 1..Len(e)] : \A i \in 1..(k - 1) : g[i] <= g[i + 1]}} :
               k \in 0..n}

\* A directory: the files of fs, each with the table content[f.stem].
Directory(fs, content) == [f \in fs |-> content[f.stem]]

----------------------------------------------------------------------------
(* The menu over every combination of files present in the folder *)

Stems == {"Primary_Person_use", "Units_use", "Charges_use", "Damages_use",
          "Primary_Units_use", "df_Units_use", "df_Charges_use", "df_Primary_Person_use"}

Files == {Csv(n) : n \in Stems} \cup {[stem |-> "Charges_use", ext |-> ".txt"]}

SPEEDING == SPEED \o <<"I","N","G">>
FENCE == <<"F","E","N","C","E">>

SamplePerson ==
    << [Person(1) EXCEPT !.PRSN_INJRY_SEV_ID = "KILLED"],
       [Person(1) EXCEPT !.PRSN_INJRY_SEV_ID = "KILLED", !.PRSN_ALC_RSLT_ID = "Positive"],
       [Person(2) EXCEPT !.PRSN_INJRY_SEV_ID = "KILLED", !.PRSN_AIRBAG_ID = "NOT DEPLOYED"] >>

SampleUnits ==
    << [Unit(1) EXCEPT !.VEH_BODY_STYL_ID = "MOTORCYCLE", !.VEH_MAKE_ID = "HONDA",
                       !.VEH_DMAG_SCL_1_ID = "DAMAGED 5"],
       Unit(2) >>

SampleCharges == << Charge(1, HIT_AND_RUN), Charge(2, SPEEDING) >>

SampleDamages == << Damage(1, NO_DAMAGE), Damage(2, FENCE) >>

SampleContent ==
    [n \in Stems |->
        CASE n \in {"Primary_Person_use", "df_Primary_Person_use"} -> SamplePerson
          [] n \in {"Units_use", "Primary_Units_use", "df_Units_use"} -> SampleUnits
          [] n \in {"Charges_use", "df_Charges_use"} -> SampleCharges
          [] OTHER -> SampleDamages]

Init == InitWith({Directory(fs, SampleContent) : fs \in SUBSET Files})

Spec == Init /\ [][Next]_vars

----------------------------------------------------------------------------
(* Claims about the menu and the missing tables *)

\* The logical table names each query looks up (lines 35, 44, 52-53, 64-65, 85,
\* 96-97, 111-112, 125, 135-136, 147-149).
TablesOf(q) ==
    CASE q \in {1, 5, 8} -> {"Primary_Person_use"}
      [] q = 2 -> {"Units_use"}
      [] q \in {3, 6, 7} -> {"Primary_Person_use", "Units_use"}
      [] q = 4 -> {"Primary_Person_use", "Charges_use"}
      [] q = 9 -> {"Primary_Units_use", "Damages_use"}
      [] q = 10 -> {"df_Units_use", "df_Charges_use", "df_Primary_Person_use"}

\* C2: a query that looks up a table name absent from the loaded mapping fails
\* with a "dataset not found" condition, not with a null-reference failure.
C2_DatasetNotFound ==
    \A q \in 1..10 :
        (ran = <<q>> /\ ~Loaded(datasets, TablesOf(q)))
            => report.status = "DatasetNotFound"

\* C9: after a query has failed the menu still takes the next selection (the
\* loop is at its prompt or at "Press Enter"), so that a later query is run.
C9_FailureIsolated ==
    report.status \notin {"ok", "none"} => pc \in {"prompt", "pause"}

\* The query a menu input stands for: the decimal numerals "1" to "10" exactly.
QueryOf(c) ==
    CASE c = "1" -> <<1>> [] c = "2" -> <<2>> [] c = "3" -> <<3>> [] c = "4" -> <<4>>
      [] c = "5" -> <<5>> [] c = "6" -> <<6>> [] c = "7" -> <<7>> [] c = "8" -> <<8>>
      [] c = "9" -> <<9>> [] c = "10" -> <<10>> [] OTHER -> <<>>

\* C10: an iteration that read choice c has run exactly the query c names, and
\* no query for "11" or for any other input; "11" ends the loop, any other
\* input that names no query leaves the loop waiting for Enter before the next
\* prompt; the loop has ended normally only with the choice "11".
C10_MenuDispatch ==
    /\ pc \in {"pause", "crashed", "done"} =>
        /\ ran = QueryOf(choice)
        /\ (choice = "11") = (pc = "done")
        /\ QueryOf(choice) = <<>> /\ choice # "11" => pc = "pause"
        /\ pc = "crashed" => QueryOf(choice) # <<>>
    /\ pc \in {"load", "prompt"} => ran = <<>>

\* Query 10 has run for the input "10" and the loop goes on.
C10_Witness == pc = "pause" /\ choice = "10" /\ ran = <<10>> /\ report.status = "ok"

----------------------------------------------------------------------------
(* Query 1 over every small person table *)

MaxRows == 3
Crashes == {1, 2}

PersonFile == Csv("Primary_Person_use")
UnitsFile == Csv("Units_use")

PersonDirs(rows) == {PersonFile :> t : t \in Tables(rows, MaxRows)}

PersonRowsQ1 ==
    {[Person(c) EXCEPT !.PRSN_GNDR_ID = g, !.PRSN_INJRY_SEV_ID = v] :
        c \in Crashes, g \in {"MALE", "FEMALE", NULL}, v \in {"KILLED", "NOT INJURED"}}

InitQ1 == InitWith(PersonDirs(PersonRowsQ1))

SpecQ1 == InitQ1 /\ [][Next]_vars

MaleKilled(t, c) ==
    {i \in DOMAIN t : /\ t[i].CRASH_ID = c
                      /\ t[i].PRSN_GNDR_ID = "MALE"
                      /\ t[i].PRSN_INJRY_SEV_ID = "KILLED"}

----------------------------------------------------------------------------
(* Query 5 over every small person table *)

PersonRowsQ5 ==
    {[Person(1) EXCEPT !.PRSN_GNDR_ID = g, !.DRVR_LIC_STATE_ID = st] :
        g \in {"MALE", "FEMALE", "Female", "UNKNOWN", NULL}, st \in {"TX", "OK", NULL}}

InitQ5 == InitWith(PersonDirs(PersonRowsQ5))

SpecQ5 == InitQ5 /\ [][Next]_vars

\* The rows of t with license state st and a gender value other than FEMALE.
NonFemale(t, st) ==
    {i \in DOMAIN t : /\ t[i].DRVR_LIC_STATE_ID = st
                      /\ t[i].PRSN_GNDR_ID # NULL
                      /\ t[i].PRSN_GNDR_ID # "FEMALE"}

----------------------------------------------------------------------------
(* Query 2 over every small units table *)

UnitRowsQ2 ==
    {[Unit(c) EXCEPT !.VEH_BODY_STYL_ID = b] :
        c \in Crashes,
        b \in {"MOTORCYCLE", "POLICE MOTORCYCLE", "PASSENGER CAR, 4-DOOR", NULL}}

InitQ2 == InitWith({UnitsFile :> t : t \in Tables(UnitRowsQ2, MaxRows)})

SpecQ2 == InitQ2 /\ [][Next]_vars

TwoWheelerCrashes(t) ==
    {t[i].CRASH_ID : i \in {k \in DOMAIN t :
        t[k].VEH_BODY_STYL_ID \in {"MOTORCYCLE", "POLICE MOTORCYCLE"}}}

\* C5: the count analytics_2 reports is the number of distinct CRASH_ID values
\* among the MOTORCYCLE and POLICE MOTORCYCLE rows, and it is also the count
\* for the table with one more such row of a crash already among them.
C5_TwoWheelerDedup ==
    (pc = "pause" /\ ran = <<2>>) =>
        /\ report.value = Cardinality(TwoWheelerCrashes(dir[UnitsFile]))
        /\ \A r \in UnitRowsQ2 :
               (/\ r.VEH_BODY_STYL_ID \in {"MOTORCYCLE", "POLICE MOTORCYCLE"}
                /\ r.CRASH_ID \in TwoWheelerCrashes(dir[UnitsFile]))
               => analytics_2("Units_use" :> Append(dir[UnitsFile], r)) = {report}

\* A table with a MOTORCYCLE row and a POLICE MOTORCYCLE row of the same crash,
\* counted once.
C5_Witness ==
    /\ pc = "pause" /\ ran = <<2>> /\ report.value = 1
    /\ \E i, j \in DOMAIN dir[UnitsFile] :
           /\ i # j
           /\ dir[UnitsFile][i].CRASH_ID = dir[UnitsFile][j].CRASH_ID
           /\ dir[UnitsFile][i].VEH_BODY_STYL_ID = "MOTORCYCLE"
           /\ dir[UnitsFile][j].VEH_BODY_STYL_ID = "POLICE MOTORCYCLE"

----------------------------------------------------------------------------
(* Query 7 over small person and units tables *)

MaxUnits == 2

PersonRowsQ7 ==
    {[Person(c) EXCEPT !.PRSN_ETHNICITY_ID = e] : c \in Crashes, e \in {"WHITE", "BLACK"}}

UnitRowsQ7 ==
    {[Unit(c) EXCEPT !.VEH_BODY_STYL_ID = b] :
        c \in Crashes, b \in {"PASSENGER CAR, 4-DOOR", "PICKUP", "UNKNOWN"}}
    \cup {[Unit(1) EXCEPT !.VEH_BODY_STYL_ID = b] : b \in {"NA", "NOT REPORTED", NULL}}

InitQ7 ==
    InitWith({PersonFile :> p @@ UnitsFile :> u :
                 p \in Tables(PersonRowsQ7, MaxRows), u \in Tables(UnitRowsQ7, MaxUnits)})

SpecQ7 == InitQ7 /\ [][Next]_vars

\* The joined person-unit rows with body style b and ethnicity e, as pairs of
\* row positions.
Joined(p, u, b, e) ==
    {ij \in (DOMAIN p) \X (DOMAIN u) :
        /\ p[ij[1]].CRASH_ID = u[ij[2]].CRASH_ID
        /\ u[ij[2]].VEH_BODY_STYL_ID = b
        /\ p[ij[1]].PRSN_ETHNICITY_ID = e}

\* C4: for every body style other than UNKNOWN, NA and NOT REPORTED, analytics_7
\* reports exactly the ethnicities whose number of joined rows within the body
\* style is the largest of the body style: every tie at the top, and no
\* ethnicity with fewer rows.  The excluded body styles are not reported.
C4_TopEthnicGroups ==
    (pc = "pause" /\ ran = <<7>>) =>
        LET p == dir[PersonFile]
            u == dir[UnitsFile]
            N(b, e) == Cardinality(Joined(p, u, b, e))
        IN  report.value =
                {[key |-> <<b, e>>, count |-> N(b, e)] :
                    <<b, e>> \in {be \in {"PASSENGER CAR, 4-DOOR", "PICKUP"} \X {"WHITE", "BLACK"} :
                                    /\ N(be[1], be[2]) > 0
                                    /\ \A e2 \in {"WHITE", "BLACK"} : N(be[1], e2) <= N(be[1], be[2])}}

\* Two ethnicities tied at the top of one body style, both reported, and
\* another body style with one top ethnicity.
C4_Witness ==
    /\ pc = "pause" /\ ran = <<7>>
    /\ \E n \in 1..MaxRows :
        {[key |-> <<"PICKUP", "WHITE">>, count |-> n],
         [key |-> <<"PICKUP", "BLACK">>, count |-> n]} \subseteq report.value
    /\ \E r \in report.value : r.key[1] = "PASSENGER CAR, 4-DOOR"

----------------------------------------------------------------------------
(* Query 9 over small units and damages tables *)

MaxDamages == 2

PrimaryUnitsFile == Csv("Primary_Units_use")
DamagesFile == Csv("Damages_use")

UnitRowsQ9 ==
    {[Unit(c) EXCEPT !.VEH_DMAG_SCL_1_ID = d, !.FIN_RESP_TYPE_ID = f] :
        c \in Crashes, d \in {"DAMAGED 5", "DAMAGED 4"}, f \in {"SURETY BOND", "NA"}}
    \cup {[Unit(1) EXCEPT !.VEH_DMAG_SCL_1_ID = "DAMAGED 7 HIGHEST",
                           !.FIN_RESP_TYPE_ID = "LIABILITY INSURANCE POLICY"],
          [Unit(1) EXCEPT !.VEH_DMAG_SCL_1_ID = NULL, !.FIN_RESP_TYPE_ID = "SURETY BOND"]}

\* "FENCE", "NO DAMAGE", "FENCE (NO DAMAGE)", and "NO DAMAG", one character short.
DamageTexts ==
    {FENCE, NO_DAMAGE, FENCE \o <<" ", "(">> \o NO_DAMAGE \o <<")">>,
     SubSeq(NO_DAMAGE, 1, Len(NO_DAMAGE) - 1)}

DamageRowsQ9 == {Damage(c, x) : c \in Crashes, x \in DamageTexts}

InitQ9 ==
    InitWith({PrimaryUnitsFile :> u @@ DamagesFile :> d :
                 u \in Tables(UnitRowsQ9, MaxUnits), d \in Tables(DamageRowsQ9, MaxDamages)})

SpecQ9 == InitQ9 /\ [][Next]_vars

\* The pairs of a unit row with an allowed damage rating and an insured
\* financial responsibility and a damages row of the same crash.
RatedInsured(u, d) ==
    {ij \in (DOMAIN u) \X (DOMAIN d) :
        /\ u[ij[1]].CRASH_ID = d[ij[2]].CRASH_ID
        /\ u[ij[1]].VEH_DMAG_SCL_1_ID \in {"DAMAGED 5", "DAMAGED 6", "DAMAGED 7 HIGHEST"}
        /\ u[ij[1]].FIN_RESP_TYPE_ID \in insured}

\* C6: the count analytics_9 reports is the number of crashes with at least one
\* joined row that has an allowed rating, an insured type and a DAMAGED_PROPERTY
\* containing "NO DAMAGE" all at once; a joined row with the rating and the
\* insurance but without the substring adds nothing.
C6_NoDamageInsured ==
    (pc = "pause" /\ ran = <<9>>) =>
        LET u == dir[PrimaryUnitsFile]
            d == dir[DamagesFile]
        IN  report.value =
                Cardinality({u[ij[1]].CRASH_ID :
                    ij \in {x \in RatedInsured(u, d) :
                               Contains(d[x[2]].DAMAGED_PROPERTY, NO_DAMAGE)}})

\* Both crashes have a rated and insured joined row, only one of them has one
\* with "NO DAMAGE" in it: count 1.
C6_Witness ==
    /\ pc = "pause" /\ ran = <<9>> /\ report.value = 1
    /\ LET u == dir[PrimaryUnitsFile]
           d == dir[DamagesFile]
       IN  /\ {u[ij[1]].CRASH_ID : ij \in RatedInsured(u, d)} = {1, 2}
           /\ \E ij \in RatedInsured(u, d) :
                  ~Contains(d[ij[2]].DAMAGED_PROPERTY, NO_DAMAGE)

----------------------------------------------------------------------------
(* Query 6 over tables with several makes of equal injury count *)

TiedCrashes == 6

MakeNames == <<"FORD", "HONDA", "TOYOTA", "CHEVROLET", "DODGE", "NISSAN", "JEEP", "KIA">>

\* One person per crash, injured, the last one injured or not.
PersonTablesQ6 ==
    {[c \in 1..TiedCrashes |->
        [Person(c) EXCEPT !.PRSN_INJRY_SEV_ID =
            IF c = TiedCrashes THEN v ELSE "POSSIBLE INJURY"]] :
        v \in {"POSSIBLE INJURY", "NOT INJURED"}}

\* One unit per crash, of the crash's own make or of the first crash's make.
UnitTablesQ6 ==
    {[c \in 1..TiedCrashes |-> [Unit(c) EXCEPT !.VEH_MAKE_ID = MakeNames[f[c]]]] :
        f \in {g \in [1..TiedCrashes -> 1..TiedCrashes] :
                  \A c \in 1..TiedCrashes : g[c] \in {1, c}}}

InitQ6 ==
    InitWith({PersonFile :> p @@ UnitsFile :> u : p \in PersonTablesQ6, u \in UnitTablesQ6})

SpecQ6 == InitQ6 /\ [][Next]_vars

\* C3: the result of analytics_6 is the rows of the top-5 cut that are not in
\* the top-2 cut of the makes in one descending order of injury count, and so
\* has at most 3 rows, also when makes have equal counts.
C3_TopFiveMinusTopTwo ==
    (pc = "pause" /\ ran = <<6>>) =>
        /\ Cardinality(report.value) <= 3
        /\ \E u \in DropDuplicates(SelectSeq(Join(dir[PersonFile], dir[UnitsFile]),
                        LAMBDA r : r.PRSN_INJRY_SEV_ID \notin {"NOT INJURED", "UNKNOWN", "NA"})) :
             \E o \in Orderings(GroupCount(u, "VEH_MAKE_ID")) :
                report.value = {o[i] : i \in 3..Min(5, Len(o))}

----------------------------------------------------------------------------
(* Query 10 over tables with more than 25 license states and 10 colors *)

ExtraStates == 1
ExtraColors == 1
MaxCharges == 2

StateNames ==
    <<"TX", "CA", "FL", "NY", "OK", "LA", "NM", "AR", "AZ", "CO", "GA", "IL", "IN", "KS",
      "MI", "MN", "MO", "MS", "NC", "OH", "PA", "TN", "VA", "WA", "WI", "AL", "NV", "UT">>

ColorNames ==
    <<"WHI", "BLK", "SIL", "GRY", "BLU", "RED", "MAR", "GRN", "TAN", "GLD", "BRO", "YEL", "ONG">>

\* Two crashes for each of the first 25 states, then one crash for each further
\* state; one driver per crash.
PersonQ10 ==
    [c \in 1..(2 * TopStates + ExtraStates) |->
        [Person(c) EXCEPT !.DRVR_LIC_STATE_ID =
            StateNames[IF c <= 2 * TopStates THEN (c + 1) \div 2 ELSE c - TopStates]]]

\* Two crashes for each of the first 10 colors, then one crash (a TOYOTA) for
\* each further color, then a unit (a HONDA) of the first color for each crash
\* of the further states.
UnitsQ10 ==
    [i \in 1..(2 * TopColors + ExtraColors + ExtraStates) |->
        IF i <= 2 * TopColors
        THEN [Unit(i) EXCEPT !.VEH_COLOR_ID = ColorNames[(i + 1) \div 2]]
        ELSE IF i <= 2 * TopColors + ExtraColors
        THEN [Unit(i) EXCEPT !.VEH_COLOR_ID = ColorNames[i - TopColors],
                             !.VEH_MAKE_ID = "TOYOTA"]
        ELSE [Unit(2 * TopStates + i - 2 * TopColors - ExtraColors)
                 EXCEPT !.VEH_COLOR_ID = ColorNames[1], !.VEH_MAKE_ID = "HONDA"]]

\* Charges of a crash of a common state and color, of the first crash with a
\* further color and of the first crash of a further state.
ChargeRowsQ10 ==
    {Charge(c, x) : c \in {1, 2 * TopColors + 1, 2 * TopStates + 1},
                    x \in {SPEEDING, HIT_AND_RUN}}

DfPersonFile == Csv("df_Primary_Person_use")
DfUnitsFile == Csv("df_Units_use")
DfChargesFile == Csv("df_Charges_use")

InitQ10 ==
    InitWith({DfPersonFile :> PersonQ10 @@ DfUnitsFile :> UnitsQ10 @@ DfChargesFile :> ch :
                 ch \in Tables(ChargeRowsQ10, MaxCharges)})

SpecQ10 == InitQ10 /\ [][Next]_vars

\* The values of column c in t with the number of distinct crashes of each.
CrashCounts(t, c) ==
    {[key |-> v, count |-> Cardinality({t[i].CRASH_ID : i \in {k \in DOMAIN t : t[k][c] = v}})] :
        v \in {t[i][c] : i \in DOMAIN t}}

\* K is the keys of n rows of g (all, when there are fewer), none of them with
\* a smaller count than a row left out.
TopCut(K, g, n) ==
    /\ K \subseteq Keys(g)
    /\ Cardinality(K) = Min(n, Cardinality(g))
    /\ \A r \in g, q \in g : (r.key \in K /\ q.key \notin K) => r.count >= q.count

\* The makes of the units with a color of co in a crash with a driver of a
\* state of st charged with a SPEED charge.
SpeedingMakes(p, u, ch, st, co) ==
    {u[i].VEH_MAKE_ID : i \in {k \in DOMAIN u :
        /\ u[k].VEH_COLOR_ID \in co
        /\ \E j \in DOMAIN p, m \in DOMAIN ch :
            /\ p[j].CRASH_ID = u[k].CRASH_ID
            /\ ch[m].CRASH_ID = u[k].CRASH_ID
            /\ p[j].PRSN_TYPE_ID = "DRIVER"
            /\ p[j].DRVR_LIC_STATE_ID \in st
            /\ Contains(ch[m].CHARGE, SPEED)}}

=============================================================================
